---- MODULE Spec2Model ----
(***************************************************************************)
(* Model of the particle swarm optimizer of v12_cessna_pso.py (the v11 and *)
(* v10 scripts share the same loop structure).  The script is a straight   *)
(* line program: initialization of the swarm, the main loop, the final     *)
(* report.  Each particle evaluation is one step of the model.             *)
(*                                                                         *)
(* Reals are modelled on an integer grid: positions, velocities and        *)
(* fitness values are integers.  The objective FCN is opaque to the        *)
(* optimizer: every call either returns a fitness drawn from FitVals or    *)
(* raises.  The products lambda*r of the velocity rule (r uniform in       *)
(* [0,1)) take the two ends of their range, 0 and lambda.                  *)
(*                                                                         *)
(* The configuration variables select what a specification explores: the   *)
(* search box, the population, the seed vector, the kind of objective      *)
(* (arbitrary, constant, non-finite, a function of its argument) and       *)
(* whether the draws are arbitrary or come from a seeded generator.        *)
(*                                                                         *)
(* Two further sections model the objective functions themselves: the body *)
(* of FCN of v12_cessna_opt.py (auto-alpha loop, penalty, return) and the  *)
(* evaluator avaliar_objetivo of cessna_opt.py.                            *)
(***************************************************************************)
EXTENDS Integers, Sequences, FiniteSets, TLC

VARIABLES
    pc,                 \* position in the script
    itermax,            \* configuration: iteration cap
    asa_base,           \* configuration: seed vector of particle 0
    pop,                \* configuration: number of particles
    limits,             \* configuration: <<xmin, xmax>>, the search box
    fcn_const,          \* <<c>>: FCN returns c from iteration 1 on; <<>>: any value
    fcn_nonfinite,      \* TRUE: the fitness FCN returns can be nan or inf
    fcn_aux,            \* the values of L/D that the data of FCN can carry
    fcn_table,          \* <<f>>: FCN is the function f of its argument; <<>>: it is not
    seed,               \* <<s>>: argument of random.seed; <<>>: the draws are arbitrary
    rng,                \* <<g>>: state of the generator of random.random(); <<>> likewise
    x, v,               \* current position / velocity of every particle
    lbest, xlbest,      \* personal best fitness / position
    gbest,              \* the Python list gbest (0-indexed in the source)
    xgbest,             \* global best position (<<>> while unbound)
    LD_best,            \* <<L/D>> recorded with the global best (<<>> while unbound);
                        \* CL_best and CD_best are assigned together with it
    ld_best,            \* <<L/D>> written to the report (<<>> before the report)
    ld_history,         \* list of LD_best, one entry per iteration
    k,                  \* iteration counter
    i,                  \* index of the particle being processed
    flag,               \* stop flag of the while loop
    gbest_history,      \* list of gbest[k-1], one entry per iteration
    history_particles,  \* list of snapshots of x, one entry per iteration
    history_gbest,      \* list of xgbest, one entry per iteration
    calls,              \* ghost: every call of FCN, <<argument, result>>
    ncalls,             \* ghost: number of calls of FCN
    yseen,              \* ghost: lowest fitness FCN returned for each particle
    trajectory,         \* ghost: <<x, v, lbest, xlbest, gbest[k-1]>> of every iteration
                        \* of a seeded run
    run,                \* ghost: 1 in the first execution of the script, 2 in the second
    first_run,          \* ghost: <<outcome>> of the first execution (<<>> during it)
    fpc,                \* position in the body of FCN ("idle" outside a call)
    alpha,              \* FCN: the angle of attack of the auto-alpha loop
    hist,               \* FCN: <<CLtot, CDtot>> of the last line of the .history file
    alpha_run,          \* ghost: <<angle>> the solver was last executed at
    nruns,              \* ghost: executions of the solver in this call
    converged,          \* ghost: the auto-alpha loop was left by its break
    result,             \* FCN: <<record>> of what the call returned (<<>> before)
    apc,                \* position of a caller of avaliar_objetivo ("idle": none)
    ax,                 \* avaliar_objetivo: <<kind, kind>> of the elements of x
    aenv,               \* avaliar_objetivo: what the steps of the call meet
    aresult             \* avaliar_objetivo: <<"return", value>> or <<"raise", what>>

config == <<itermax, asa_base, pop, limits, fcn_const, fcn_nonfinite, fcn_aux,
            fcn_table, seed>>

history == <<gbest_history, history_particles, history_gbest>>

session == <<run, first_run>>

aval == <<apc, ax, aenv, aresult>>

fcn == <<fpc, alpha, hist, alpha_run, nruns, converged, result, aval>>

vars == <<pc, config, x, v, lbest, xlbest, gbest, xgbest, k, i, flag, history,
          calls, ncalls, yseen, LD_best, ld_best, ld_history, rng, trajectory,
          session, fcn>>

----------------------------------------------------------------------------
(* Configuration: section 1 of the script, on the integer grid.            *)

xmin == limits[1]
xmax == limits[2]
nrvar == Len(xmin)
POP == 2
tol == 1
OmegaNum == 2
OmegaDen == 5
lambda1 == 2
lambda2 == 2
gbest0 == 1000
INF == 2000
NaN == 3000
Raised == -1

(* The search box of the runs, and a box whose limits are swapped.         *)
Box == <<(<<0>>), (<<2>>)>>
InvertedBox == <<(<<2>>), (<<0>>)>>

(* A box of two dimensions.                                                *)
Box2 == <<(<<0, 0>>), (<<2, 2>>)>>

(* Bounds of the exploration.                                              *)
MaxFit == 2
MaxIterMax == 3
MaxConstCap == 13
MaxAux == 1
MaxDev == 3

Particles == 0 .. (pop - 1)
Dims == 1 .. nrvar
FitVals == 0 .. MaxFit
IterCaps == (-1) .. MaxIterMax
ConstCaps == 12 .. MaxConstCap
AuxVals == 0 .. MaxAux

(* The fitness an objective returns for a failed evaluation (1e6 in        *)
(* avaliar_objetivo): the highest fitness value.                           *)
Sentinel == MaxFit
Zeros == [j \in Dims |-> 0]

(* Seed vectors supplied for particle 0: one inside the box, one outside.  *)
SeedVals == { [j \in Dims |-> xmin[j] + 1], [j \in Dims |-> xmax[j] + 1] }

(* Arguments of random.seed in the scripts.                                *)
Seeds == {2, 4}

(* The generator behind random.random(): a congruential generator of       *)
(* period 16 stands for the Mersenne Twister.  Seeded == FALSE leaves the  *)
(* draws arbitrary.                                                        *)
Seeded == seed # <<>>

Step(g) == (5 * g + 3) % 16

RECURSIVE Peek(_, _)
Peek(g, n) == IF n = 0 THEN g ELSE Peek(Step(g), n - 1)

(* The n-th next value of random.random(), 0 for the low end of [0, 1)     *)
(* and 1 for the high end.                                                 *)
Draw(n) == Peek(rng[1], n) \div 8

(* The generator after n calls of random.random().                         *)
Advance(n) == IF Seeded THEN <<Peek(rng[1], n)>> ELSE rng

(* The generator left where the previous execution stopped.                *)
NotReseeded == rng

(* The generator after random.seed(s): lines 58-59.                        *)
Reseeded == seed

(* xmin[j] + (xmax[j] - xmin[j]) * random.random(), random() in [0, 1).    *)
RandomCoord(j) ==
    IF xmin[j] < xmax[j] THEN xmin[j] .. (xmax[j] - 1)
    ELSE IF xmin[j] = xmax[j] THEN {xmin[j]}
    ELSE (xmax[j] + 1) .. xmin[j]

(* The coordinate for the draw r, 0 or 1.                                  *)
CoordOf(j, r) ==
    IF r = 0 \/ xmin[j] = xmax[j] THEN xmin[j]
    ELSE IF xmin[j] < xmax[j] THEN xmax[j] - 1 ELSE xmax[j] + 1

RandomPositions ==
    IF Seeded THEN {[j \in Dims |-> CoordOf(j, Draw(j - 1))]}
    ELSE LET coords == UNION {RandomCoord(j) : j \in Dims}
         IN  {p \in [Dims -> coords] : \A j \in Dims : p[j] \in RandomCoord(j)}

(* Values of lambda1*r1 and lambda2*r2 for r1, r2 = random.random(): the    *)
(* two ends of the range of the draw.                                      *)
Coef1 == {0, lambda1}
Coef2 == {0, lambda2}

(* The vectors lambda1*r1 and lambda2*r2 of one particle: r1 and r2 are    *)
(* drawn in turn for every coordinate (lines 144-145).                     *)
Coefs1 ==
    IF Seeded THEN {[j \in Dims |-> lambda1 * Draw(2 * (j - 1))]}
    ELSE [Dims -> Coef1]

Coefs2 ==
    IF Seeded THEN {[j \in Dims |-> lambda2 * Draw(2 * (j - 1) + 1)]}
    ELSE [Dims -> Coef2]

----------------------------------------------------------------------------
(* Helpers.                                                                *)

(* Python's 0-based list indexing with a non-negative index.               *)
Py(list, idx) == list[idx + 1]

Abs(a) == IF a < 0 THEN -a ELSE a

RECURSIVE SumSeq(_)
SumSeq(s) == IF s = <<>> THEN 0 ELSE Head(s) + SumSeq(Tail(s))

Min2(a, b) == IF a < b THEN a ELSE b

(* np.clip that forgets the upper limit.                                   *)
ClipLowerOnly(a, lo, hi) == IF a < lo THEN lo ELSE a

(* np.clip(a, lo, hi) = minimum(hi, maximum(a, lo))                       *)
Clip(a, lo, hi) == IF a > hi \/ lo > hi THEN hi ELSE IF a < lo THEN lo ELSE a

(* omega * v on the grid (rounded towards zero).                           *)
Inertia(vel) ==
    IF vel >= 0 THEN (OmegaNum * vel) \div OmegaDen
    ELSE -((OmegaNum * (-vel)) \div OmegaDen)

(* vnew of one coordinate: lines 148-150.                                  *)
VNew(vel, pos, pbest, gb, c1, c2) ==
    Inertia(vel) + c1 * (pbest - pos) + c2 * (gb - pos)

(* xnew of one coordinate: line 153.                                       *)
XNew(pos, vnew, j) == Clip(pos + vnew, xmin[j], xmax[j])

InBox(p) == \A j \in Dims : xmin[j] <= p[j] /\ p[j] <= xmax[j]

(* fobj when the history file holds nan or inf coefficients.               *)
NonFinite == {NaN, INF}

(* What a call of FCN can return.                                          *)
FCNResults ==
    (IF fcn_const = <<>> \/ pc = "init" THEN FitVals ELSE {fcn_const[1]})
    \cup (IF fcn_nonfinite THEN NonFinite ELSE {})

(* What a call of FCN with the argument arg can return.                    *)
FCNAt(arg) == IF fcn_table # <<>> THEN {fcn_table[1][arg]} ELSE FCNResults

(* The L/D in the data that FCN returns with the fitness.                  *)
FCNData == fcn_aux

(* Whether a call of FCN can raise.                                        *)
FCNMayRaise == fcn_const = <<>>

(* Whether x[0, :] = asa_base is a legal numpy assignment: the shapes     *)
(* are equal or asa_base has one element, which is broadcast.              *)
SeedFits == Len(asa_base) \in {1, nrvar}

(* The row x[0, :] after line 95.                                          *)
SeedRow == [j \in Dims |-> IF Len(asa_base) = 1 THEN asa_base[1] ELSE asa_base[j]]

(* Every particle started at the seed vector.                              *)
InitPositionsAllSeed(p) == {SeedRow}

(* The position particle p starts at: lines 93-99.                         *)
InitPositions(p) == IF p = 0 THEN {SeedRow} ELSE RandomPositions

(* a < b on Python floats: every comparison with nan is False.            *)
Less(a, b) == a # NaN /\ b # NaN /\ a < b

(* The comparison of the best updates made non-strict.                     *)
ImprovesOrTies(ynew, best) == ynew # NaN /\ best # NaN /\ ynew <= best

(* The strict comparison of the best updates: lines 112, 168, 173.         *)
Improves(ynew, best) == Less(ynew, best)

(* The particle loops stopped one particle short.                          *)
MoreParticlesShort(p) == p + 1 < pop - 1

(* Whether for i in range(pop) has another pass after particle p.          *)
MoreParticles(p) == p + 1 < pop

(* The slot of the list gbest that holds the current global best.          *)
CurSlot == k - 1

(* The slot copied into the new list entry at the top of the loop body.    *)
PrevSlot == k - 2

(* The global best updated on a tie as well.                               *)
GlobalBestOnTies(ynew, xnew, ld) ==
    IF ynew <= Py(gbest, CurSlot) THEN <<ynew, xnew, <<ld>>>>
    ELSE <<Py(gbest, CurSlot), xgbest, LD_best>>

(* The global best <<gbest[k-1], xgbest, LD_best>> after an evaluation     *)
(* returned ynew and the L/D ld at xnew: lines 112-117 and 173-178.        *)
GlobalBest(ynew, xnew, ld) ==
    IF Improves(ynew, Py(gbest, CurSlot)) THEN <<ynew, xnew, <<ld>>>>
    ELSE <<Py(gbest, CurSlot), xgbest, LD_best>>

----------------------------------------------------------------------------
(* State after lines 44-88.                                                *)

InitState ==
    /\ pc = "init"
    /\ pop \in (-1) .. (POP + 1)
    /\ limits \in {Box, InvertedBox, Box2}
    /\ seed \in {<<>>} \cup {<<s>> : s \in Seeds}
    /\ rng = seed
    /\ trajectory = <<>>
    /\ run = 1
    /\ first_run = <<>>
    /\ x = [p \in Particles |-> Zeros]
    /\ v = [p \in Particles |-> Zeros]
    /\ lbest = [p \in Particles |-> INF]
    /\ xlbest = [p \in Particles |-> Zeros]
    /\ gbest = <<gbest0>>
    /\ xgbest = <<>>
    /\ k = 1
    /\ i = 0
    /\ flag = FALSE
    /\ gbest_history = <<>>
    /\ history_particles = <<>>
    /\ history_gbest = <<>>
    /\ calls = {}
    /\ ncalls = 0
    /\ yseen = [p \in Particles |-> INF]
    /\ LD_best = <<>>
    /\ ld_best = <<>>
    /\ ld_history = <<>>
    /\ fpc = "idle"
    /\ alpha = 0
    /\ hist = <<>>
    /\ alpha_run = <<>>
    /\ nruns = 0
    /\ converged = FALSE
    /\ result = <<>>
    /\ apc = "idle"
    /\ ax = <<>>
    /\ aenv = <<>>
    /\ aresult = <<>>

Init ==
    /\ InitState
    /\ pop = POP
    /\ limits = Box
    /\ itermax \in IterCaps
    /\ asa_base \in SeedVals
    /\ fcn_const = <<>>
    /\ fcn_nonfinite = FALSE
    /\ fcn_aux = {0}
    /\ fcn_table = <<>>
    /\ seed = <<>>

(* One pass of the initialization loop: lines 91-117.                      *)
InitParticle ==
    /\ pc = "init"
    /\ i < pop
    /\ i = 0 => SeedFits
    /\ \E p \in InitPositions(i) : \E y \in FCNAt(p), ld \in FCNData :
        /\ x' = [x EXCEPT ![i] = p]
        /\ calls' = calls \cup {<<p, y>>}
        /\ ncalls' = ncalls + 1
        /\ yseen' = [yseen EXCEPT ![i] = Min2(@, y)]
        /\ lbest' = [lbest EXCEPT ![i] = y]
        /\ xlbest' = [xlbest EXCEPT ![i] = p]
        /\ gbest' = [gbest EXCEPT ![CurSlot + 1] = GlobalBest(y, p, ld)[1]]
        /\ xgbest' = GlobalBest(y, p, ld)[2]
        /\ LD_best' = GlobalBest(y, p, ld)[3]
    /\ IF MoreParticles(i)
       THEN /\ i' = i + 1
            /\ pc' = "init"
       ELSE /\ i' = i
            /\ pc' = "start"
    /\ rng' = Advance(IF i = 0 THEN 0 ELSE nrvar)
    /\ UNCHANGED <<fcn, config, v, k, flag, history, ld_best, ld_history, trajectory, session>>

(* FCN raises during initialization: nothing catches it (line 102).        *)
InitRaise ==
    /\ pc = "init"
    /\ i < pop
    /\ i = 0 => SeedFits
    /\ FCNMayRaise
    /\ \E p \in InitPositions(i) :
        /\ x' = [x EXCEPT ![i] = p]
        /\ calls' = calls \cup {<<p, Raised>>}
        /\ ncalls' = ncalls + 1
    /\ pc' = "crashed"
    /\ rng' = Advance(IF i = 0 THEN 0 ELSE nrvar)
    /\ UNCHANGED <<fcn, config, v, lbest, xlbest, gbest, xgbest, k, i, flag, history, yseen, LD_best, ld_best, ld_history, trajectory, session>>

(* np.zeros((pop, nrvar)) with a negative pop: line 79 raises ValueError.  *)
NegativePop ==
    /\ pc = "init"
    /\ pop < 0
    /\ pc' = "crashed"
    /\ UNCHANGED <<fcn, config, x, v, lbest, xlbest, gbest, xgbest, k, i, flag, history, calls, ncalls, yseen, LD_best, ld_best, ld_history, rng, trajectory, session>>

(* x[0, :] = asa_base with a seed of another length: line 95 raises        *)
(* ValueError.                                                             *)
SeedMismatch ==
    /\ pc = "init"
    /\ i < pop
    /\ i = 0
    /\ ~SeedFits
    /\ pc' = "crashed"
    /\ UNCHANGED <<fcn, config, x, v, lbest, xlbest, gbest, xgbest, k, i, flag, history, calls, ncalls, yseen, LD_best, ld_best, ld_history, rng, trajectory, session>>

(* for i in range(pop) with pop = 0: the loops of lines 91 and 139 are     *)
(* skipped.                                                                *)
EmptyLoop ==
    /\ pc \in {"init", "particles"}
    /\ pop = 0
    /\ pc' = IF pc = "init" THEN "start" ELSE "record"
    /\ UNCHANGED <<fcn, config, x, v, lbest, xlbest, gbest, xgbest, k, i, flag, history, calls, ncalls, yseen, LD_best, ld_best, ld_history, rng, trajectory, session>>

(* The cap tested before the first pass of the loop body.                  *)
StartLoopCapFirst ==
    /\ pc = "start"
    /\ flag' = (2 >= itermax)
    /\ k' = 2
    /\ gbest' = Append(gbest, Py(gbest, 0))
    /\ pc' = "while"
    /\ UNCHANGED <<fcn, config, x, v, lbest, xlbest, xgbest, i, history, calls, ncalls, yseen, LD_best, ld_best, ld_history, rng, trajectory, session>>

(* Lines 126-128.                                                          *)
StartLoop ==
    /\ pc = "start"
    /\ flag' = FALSE
    /\ k' = 2
    /\ gbest' = Append(gbest, Py(gbest, 0))
    /\ pc' = "while"
    /\ UNCHANGED <<fcn, config, x, v, lbest, xlbest, xgbest, i, history, calls, ncalls, yseen, LD_best, ld_best, ld_history, rng, trajectory, session>>

(* The loop test succeeds and the body starts: lines 131-134.              *)
BeginIter ==
    /\ pc = "while"
    /\ ~flag
    /\ gbest' = Append(gbest, Py(gbest, PrevSlot))
    /\ i' = 0
    /\ pc' = "particles"
    /\ UNCHANGED <<fcn, config, x, v, lbest, xlbest, xgbest, k, flag, history, calls, ncalls, yseen, LD_best, ld_best, ld_history, rng, trajectory, session>>

(* The velocity drawn towards the global best the iteration started with.  *)
NewVelSynchronous(p, c1, c2) ==
    LET gb == IF history_gbest = <<>> THEN xgbest
              ELSE history_gbest[Len(history_gbest)]
    IN  [j \in Dims |-> VNew(v[p][j], x[p][j], xlbest[p][j], gb[j], c1[j], c2[j])]

(* The velocity limited to the span of the box.                            *)
NewVelClamped(p, c1, c2) ==
    [j \in Dims |->
        Clip(VNew(v[p][j], x[p][j], xlbest[p][j], xgbest[j], c1[j], c2[j]),
             xmin[j] - xmax[j], xmax[j] - xmin[j])]

(* The new velocity and position of particle p for the draws c1, c2.       *)
NewVel(p, c1, c2) ==
    [j \in Dims |-> VNew(v[p][j], x[p][j], xlbest[p][j], xgbest[j], c1[j], c2[j])]

NewPos(p, vnew) == [j \in Dims |-> XNew(x[p][j], vnew[j], j)]

(* The row xlbest[p] kept as a view of the row x[p]: it follows the        *)
(* particle.                                                               *)
PersonalBestAliased(p, ynew, xnew) ==
    IF Improves(ynew, lbest[p]) THEN <<ynew, xnew>> ELSE <<lbest[p], xnew>>

(* The personal best overwritten by every evaluation.                      *)
PersonalBestLatest(p, ynew, xnew) == <<ynew, xnew>>

(* The personal best <<lbest[p], xlbest[p]>> after particle p was          *)
(* evaluated to ynew at xnew: lines 168-170.                               *)
PersonalBest(p, ynew, xnew) ==
    IF Improves(ynew, lbest[p]) THEN <<ynew, xnew>> ELSE <<lbest[p], xlbest[p]>>

(* One pass of the particle loop: lines 139-178.                           *)
MoveParticle ==
    /\ pc = "particles"
    /\ i < pop
    /\ xgbest # <<>>
    /\ \E c1 \in Coefs1, c2 \in Coefs2 :
        LET vnew == NewVel(i, c1, c2)
            xnew == NewPos(i, vnew)
        IN  \E y \in FCNAt(xnew), ld \in FCNData :
            /\ v' = [v EXCEPT ![i] = vnew]
            /\ x' = [x EXCEPT ![i] = xnew]
            /\ calls' = calls \cup {<<xnew, y>>}
            /\ ncalls' = ncalls + 1
            /\ yseen' = [yseen EXCEPT ![i] = Min2(@, y)]
            /\ lbest' = [lbest EXCEPT ![i] = PersonalBest(i, y, xnew)[1]]
            /\ xlbest' = [xlbest EXCEPT ![i] = PersonalBest(i, y, xnew)[2]]
            /\ gbest' = [gbest EXCEPT ![CurSlot + 1] = GlobalBest(y, xnew, ld)[1]]
            /\ xgbest' = GlobalBest(y, xnew, ld)[2]
            /\ LD_best' = GlobalBest(y, xnew, ld)[3]
    /\ IF MoreParticles(i)
       THEN /\ i' = i + 1
            /\ pc' = "particles"
       ELSE /\ i' = i
            /\ pc' = "record"
    /\ rng' = Advance(2 * nrvar)
    /\ UNCHANGED <<fcn, config, k, flag, history, ld_best, ld_history, trajectory, session>>

(* FCN raises inside the loop: nothing catches it (line 160).              *)
MoveRaise ==
    /\ pc = "particles"
    /\ i < pop
    /\ xgbest # <<>>
    /\ FCNMayRaise
    /\ \E c1 \in Coefs1, c2 \in Coefs2 :
        LET vnew == NewVel(i, c1, c2)
            xnew == NewPos(i, vnew)
        IN  /\ v' = [v EXCEPT ![i] = vnew]
            /\ x' = [x EXCEPT ![i] = xnew]
            /\ calls' = calls \cup {<<xnew, Raised>>}
            /\ ncalls' = ncalls + 1
    /\ pc' = "crashed"
    /\ rng' = Advance(2 * nrvar)
    /\ UNCHANGED <<fcn, config, lbest, xlbest, gbest, xgbest, k, i, flag, history, yseen, LD_best, ld_best, ld_history, trajectory, session>>

(* No evaluation of the initialization passed the test of line 112, so   *)
(* the name xgbest was never bound: line 150 raises NameError.             *)
MoveUnbound ==
    /\ pc = "particles"
    /\ i < pop
    /\ xgbest = <<>>
    /\ pc' = "crashed"
    /\ rng' = Advance(2)
    /\ UNCHANGED <<fcn, config, x, v, lbest, xlbest, gbest, xgbest, k, i, flag, history, calls, ncalls, yseen, LD_best, ld_best, ld_history, trajectory, session>>

(* The cap tested one iteration late.                                      *)
StopByCapLate == k > itermax

(* Stop by the iteration cap: lines 194-195.                               *)
StopByCap == k >= itermax

(* The difference of the windows without the absolute value.               *)
PlateauDeltaSigned(h) ==
    LET prev_win == SubSeq(h, Len(h) - 9, Len(h) - 5)
        curr_win == SubSeq(h, Len(h) - 4, Len(h))
    IN  SumSeq(curr_win) - SumSeq(prev_win)

(* 5 * delta of lines 199-201: the means of the two windows of five are    *)
(* compared through their sums.                                            *)
PlateauDelta(h) ==
    LET prev_win == SubSeq(h, Len(h) - 9, Len(h) - 5)
        curr_win == SubSeq(h, Len(h) - 4, Len(h))
    IN  Abs(SumSeq(curr_win) - SumSeq(prev_win))

(* The stagnation test started one iteration late.                         *)
StopByPlateauLate(h) ==
    /\ Len(h) > 10
    /\ LET prev_win == SubSeq(h, Len(h) - 9, Len(h) - 5)
           curr_win == SubSeq(h, Len(h) - 4, Len(h))
       IN  Abs(SumSeq(curr_win) - SumSeq(prev_win)) < 5 * tol

(* Stop by stagnation, on the history h: lines 198-203.                    *)
StopByPlateau(h) ==
    /\ Len(h) >= 10
    /\ PlateauDelta(h) < 5 * tol

(* The positions appended without .copy(): every entry of the list is the *)
(* same view of the array x and shows its current content.                 *)
RecordPositionsAliased(h, pos) == [n \in 1 .. (Len(h) + 1) |-> pos]

(* history_particles[var].append(x[:, idx].copy()): line 186.  An entry    *)
(* holds the column of every variable.                                     *)
RecordPositions(h, pos) == Append(h, pos)

(* End of the loop body: lines 183-208.                                    *)
EndIter ==
    /\ pc = "record"
    /\ xgbest # <<>>
    /\ gbest_history' = Append(gbest_history, Py(gbest, CurSlot))
    /\ history_particles' = RecordPositions(history_particles, x)
    /\ history_gbest' = Append(history_gbest, xgbest)
    /\ flag' = (StopByCap \/ StopByPlateau(gbest_history'))
    /\ ld_history' = Append(ld_history, LD_best[1])
    /\ trajectory' = IF Seeded
                     THEN Append(trajectory, <<x, v, lbest, xlbest, Py(gbest, CurSlot)>>)
                     ELSE trajectory
    /\ k' = k + 1
    /\ pc' = "while"
    /\ UNCHANGED <<fcn, config, x, v, lbest, xlbest, gbest, xgbest, i, calls, ncalls, yseen, LD_best, ld_best, rng, session>>

(* The end of the loop body of a swarm without particles: xgbest was      *)
(* never bound and line 187 raises NameError.                              *)
EndIterUnbound ==
    /\ pc = "record"
    /\ xgbest = <<>>
    /\ gbest_history' = Append(gbest_history, Py(gbest, CurSlot))
    /\ history_particles' = Append(history_particles, x)
    /\ pc' = "crashed"
    /\ UNCHANGED <<fcn, config, x, v, lbest, xlbest, gbest, xgbest, k, i, flag, history_gbest, calls, ncalls, yseen, LD_best, ld_best, ld_history, rng, trajectory, session>>

(* The loop test fails: line 131.                                          *)
LoopExit ==
    /\ pc = "while"
    /\ flag
    /\ pc' = "report"
    /\ UNCHANGED <<fcn, config, x, v, lbest, xlbest, gbest, xgbest, k, i, flag, history, calls, ncalls, yseen, LD_best, ld_best, ld_history, rng, trajectory, session>>

(* The final re-evaluation of the best point: line 268.                    *)
FinalReport ==
    /\ pc = "report"
    /\ \E y \in FCNAt(xgbest), ld \in FCNData :
        /\ calls' = calls \cup {<<xgbest, y>>}
        /\ ld_best' = <<ld>>
    /\ ncalls' = ncalls + 1
    /\ pc' = "done"
    /\ UNCHANGED <<fcn, config, x, v, lbest, xlbest, gbest, xgbest, k, i, flag, history, yseen, LD_best, ld_history, rng, trajectory, session>>

FinalRaise ==
    /\ pc = "report"
    /\ FCNMayRaise
    /\ calls' = calls \cup {<<xgbest, Raised>>}
    /\ ncalls' = ncalls + 1
    /\ pc' = "crashed"
    /\ UNCHANGED <<fcn, config, x, v, lbest, xlbest, gbest, xgbest, k, i, flag, history, yseen, LD_best, ld_best, ld_history, rng, trajectory, session>>

(* The iteration count the report prints after the loop: "k =", k - 1 and  *)
(* "Iteracoes concluidas (k): {k - 1}" in v11_cessna_pso.py.               *)
ReportedIterations == k - 1

(* What an execution of the script leaves behind.                          *)
Outcome == <<trajectory, history, gbest, x, v, lbest, xlbest, xgbest, k, ld_history>>

(* The script is executed a second time: lines 44-88 again.                *)
Rerun ==
    /\ pc = "done"
    /\ run = 1
    /\ run' = 2
    /\ first_run' = <<Outcome>>
    /\ rng' = Reseeded
    /\ pc' = "init"
    /\ x' = [p \in Particles |-> Zeros]
    /\ v' = [p \in Particles |-> Zeros]
    /\ lbest' = [p \in Particles |-> INF]
    /\ xlbest' = [p \in Particles |-> Zeros]
    /\ gbest' = <<gbest0>>
    /\ xgbest' = <<>>
    /\ k' = 1
    /\ i' = 0
    /\ flag' = FALSE
    /\ gbest_history' = <<>>
    /\ history_particles' = <<>>
    /\ history_gbest' = <<>>
    /\ calls' = {}
    /\ ncalls' = 0
    /\ yseen' = [p \in Particles |-> INF]
    /\ LD_best' = <<>>
    /\ ld_best' = <<>>
    /\ ld_history' = <<>>
    /\ trajectory' = <<>>
    /\ UNCHANGED <<fcn, config>>

Next ==
    \/ InitParticle
    \/ InitRaise
    \/ StartLoop
    \/ BeginIter
    \/ MoveParticle
    \/ MoveRaise
    \/ EndIter
    \/ LoopExit
    \/ FinalReport
    \/ FinalRaise

Spec == Init /\ [][Next]_vars

----------------------------------------------------------------------------
(* Runs with an objective that is constant from iteration 1 onward and a   *)
(* cap that the stagnation test beats.                                     *)

InitConst ==
    /\ InitState
    /\ pop = 1
    /\ limits = Box
    /\ itermax \in ConstCaps
    /\ asa_base \in SeedVals
    /\ fcn_const \in {<<c>> : c \in FitVals}
    /\ fcn_nonfinite = FALSE
    /\ fcn_aux = {0}
    /\ fcn_table = <<>>
    /\ seed = <<>>

NextConst ==
    \/ InitParticle
    \/ StartLoop
    \/ BeginIter
    \/ MoveParticle
    \/ EndIter
    \/ LoopExit
    \/ FinalReport

SpecConst == InitConst /\ [][NextConst]_vars

----------------------------------------------------------------------------
(* Runs of one particle with an arbitrary objective and a cap that leaves  *)
(* room for the stagnation test.                                           *)

InitPlateau ==
    /\ InitState
    /\ pop = 1
    /\ limits = Box
    /\ itermax \in ConstCaps
    /\ asa_base \in SeedVals
    /\ fcn_const = <<>>
    /\ fcn_nonfinite = FALSE
    /\ fcn_aux = {0}
    /\ fcn_table = <<>>
    /\ seed = <<>>

SpecPlateau == InitPlateau /\ [][NextConst]_vars

(* The script runs on its own: a step that can be taken is taken.          *)
SpecPlateauFair == SpecPlateau /\ WF_vars(NextConst)

----------------------------------------------------------------------------
(* Two executions of the script with the same configuration, the same      *)
(* argument of random.seed and an objective that is a function of its      *)
(* argument.                                                               *)

Positions == [Dims -> UNION {xmin[j] .. (xmax[j] + 1) : j \in Dims}]

Tables == [Positions -> FitVals]

InitSeed ==
    /\ InitState
    /\ pop = POP
    /\ limits = Box
    /\ itermax \in 2 .. 3
    /\ asa_base \in SeedVals
    /\ fcn_const = <<>>
    /\ fcn_nonfinite = FALSE
    /\ fcn_aux = {0}
    /\ fcn_table \in {<<f>> : f \in Tables}
    /\ seed # <<>>

NextSeed ==
    \/ NextConst
    \/ Rerun

SpecSeed == InitSeed /\ [][NextSeed]_vars

----------------------------------------------------------------------------
(* Runs of the scenario: two dimensions, three particles, a cap of three   *)
(* iterations, the sum of squares as objective.                            *)

RECURSIVE SumSq(_)
SumSq(p) == IF p = <<>> THEN 0 ELSE Head(p) * Head(p) + SumSq(Tail(p))

InitScenario ==
    /\ InitState
    /\ pop = POP + 1
    /\ limits = Box2
    /\ itermax = 3
    /\ asa_base \in {p \in Positions : InBox(p)}
    /\ fcn_const = <<>>
    /\ fcn_nonfinite = FALSE
    /\ fcn_aux = {0}
    /\ fcn_table = <<[p \in Positions |-> SumSq(p)]>>
    /\ seed = <<>>

SpecScenario == InitScenario /\ [][NextConst]_vars

----------------------------------------------------------------------------
(* Runs with an objective whose auxiliary metrics vary from call to call.  *)

InitAux ==
    /\ InitState
    /\ pop = POP
    /\ limits = Box
    /\ itermax \in 2 .. 3
    /\ asa_base \in SeedVals
    /\ fcn_const = <<>>
    /\ fcn_nonfinite = FALSE
    /\ fcn_aux = AuxVals
    /\ fcn_table = <<>>
    /\ seed = <<>>

SpecAux == InitAux /\ [][Next]_vars

----------------------------------------------------------------------------
(* Runs started from a configuration that is in error: swapped limits, an  *)
(* empty or negative population, a seed vector of another length.          *)

BadConfigs ==
    { <<InvertedBox, POP, (<<1>>)>>,
      <<Box, 0, (<<1>>)>>,
      <<Box, -1, (<<1>>)>>,
      <<Box, POP, (<<1, 1>>)>> }

ConfigError ==
    \/ \E j \in Dims : xmin[j] > xmax[j]
    \/ pop < 1
    \/ Len(asa_base) # nrvar

InitConfig ==
    /\ InitState
    /\ \E c \in BadConfigs : limits = c[1] /\ pop = c[2] /\ asa_base = c[3]
    /\ itermax \in 2 .. 3
    /\ fcn_const = <<>>
    /\ fcn_nonfinite = FALSE
    /\ fcn_aux = {0}
    /\ fcn_table = <<>>
    /\ seed = <<>>

NextConfig ==
    \/ Next
    \/ NegativePop
    \/ SeedMismatch
    \/ EmptyLoop
    \/ EndIterUnbound

SpecConfig == InitConfig /\ [][NextConfig]_vars

----------------------------------------------------------------------------
(* Runs with an objective whose fitness can be nan or inf.                 *)

InitNonFinite ==
    /\ InitState
    /\ pop = POP
    /\ limits = Box
    /\ itermax = 2
    /\ asa_base \in SeedVals
    /\ fcn_const = <<>>
    /\ fcn_nonfinite = TRUE
    /\ fcn_aux = {0}
    /\ fcn_table = <<>>
    /\ seed = <<>>

NextNonFinite ==
    \/ Next
    \/ MoveUnbound

SpecNonFinite == InitNonFinite /\ [][NextNonFinite]_vars

----------------------------------------------------------------------------
(* The objective FCN of v12_cessna_opt.py (v11_cessna_opt.py has the same  *)
(* body): the auto-alpha loop, the final reading of the .history file, the *)
(* penalty and the value returned.  The solver is opaque: each execution   *)
(* leaves any coefficients in the file.  Lift and weight are integers; the *)
(* angle is counted in units of step / W degrees, so that                  *)
(* alpha -= step * error subtracts L - W; L/D, the penalty and fobj are    *)
(* counted in units of 1 / FobjScale.                                      *)

W == 40
LiftPerCl == 2
Cycles == 4
BandDen == 20
FobjScale == 2

(* Values of CLtot and CDtot the solver can leave in the file: lift        *)
(* coefficients around the one that carries the weight, or nan.            *)
ClVals == (((W \div LiftPerCl) - MaxDev) .. ((W \div LiftPerCl) + MaxDev)) \cup {NaN}
CdVals == {0, 1, 2}

(* L = 0.5 * rho * V**2 * S * cl: lines 212 and 241.                       *)
Lift(cl) == IF cl = NaN THEN NaN ELSE LiftPerCl * cl

(* abs(error) < 0.05 with error = (L - target_L) / target_L: lines 213-216. *)
Convergence(L) == L # NaN /\ BandDen * Abs(L - W) < W

(* alpha -= step * error: line 220.                                        *)
AlphaNext(a, L) == IF a = NaN \/ L = NaN THEN NaN ELSE a - (L - W)

(* The ends of the band taken as outside of it.                            *)
OutOfBandEndsOut(L) ==
    /\ L # NaN
    /\ \/ BandDen * L <= (BandDen - 1) * W
       \/ BandDen * L >= (BandDen + 1) * W

(* L < L_min or L > L_max with L_min = W * 0.95, L_max = W * 1.05: lines   *)
(* 244-247.  Both comparisons are False on nan.                            *)
OutOfBand(L) ==
    /\ L # NaN
    /\ \/ BandDen * L < (BandDen - 1) * W
       \/ BandDen * L > (BandDen + 1) * W

Isqrt(n) == CHOOSE r \in 0 .. n : r * r <= n /\ (r + 1) * (r + 1) > n

(* penalty: lines 247-251; 100 * abs((L - W) / W) ** 1.5 is the square     *)
(* root of 100^2 * |L - W|^3 / W^3.                                        *)
Penalty(L) ==
    IF OutOfBand(L)
    THEN Isqrt(((FobjScale * 100) ^ 2 * Abs(L - W) ^ 3) \div (W ^ 3))
    ELSE 0

(* ld = cl / cd: line 238 (cd is not zero).                                *)
LDOf(cl, cd) == IF cl = NaN THEN NaN ELSE (FobjScale * cl) \div cd

(* fobj = -ld + penalty: line 263.                                         *)
Fobj(ld, pen) == IF ld = NaN THEN NaN ELSE pen - ld

(* FCN is entered: lines 173-176.                                          *)
FCNCall ==
    /\ fpc = "idle"
    /\ pc = "init"
    /\ fpc' = "loop"
    /\ alpha' = 0
    /\ UNCHANGED <<hist, alpha_run, nruns, converged, result, aval>>
    /\ UNCHANGED <<pc, config, x, v, lbest, xlbest, gbest, xgbest, k, i, flag, history, calls, ncalls, yseen, LD_best, ld_best, ld_history, rng, trajectory, session>>

(* One pass of the auto-alpha loop: lines 178-220.                         *)
FCNCycle ==
    /\ fpc = "loop"
    /\ nruns < Cycles
    /\ \E cl \in ClVals, cd \in CdVals :
        LET L == Lift(cl)
        IN  /\ alpha_run' = <<alpha>>
            /\ nruns' = nruns + 1
            /\ hist' = <<cl, cd>>
            /\ IF Convergence(L)
               THEN /\ converged' = TRUE
                    /\ alpha' = alpha
                    /\ fpc' = "read"
               ELSE /\ converged' = FALSE
                    /\ alpha' = AlphaNext(alpha, L)
                    /\ fpc' = IF nruns + 1 < Cycles THEN "loop" ELSE "read"
    /\ UNCHANGED <<result, aval>>
    /\ UNCHANGED <<pc, config, x, v, lbest, xlbest, gbest, xgbest, k, i, flag, history, calls, ncalls, yseen, LD_best, ld_best, ld_history, rng, trajectory, session>>

(* The final reading of the file, the penalty and the return: lines        *)
(* 229-276.                                                                *)
FCNReturn ==
    /\ fpc = "read"
    /\ hist[2] # 0
    /\ LET cl == hist[1]
           cd == hist[2]
           ld == LDOf(cl, cd)
           L == Lift(cl)
           penalty == Penalty(L)
       IN  result' = << [fobj |-> Fobj(ld, penalty), CL |-> cl, CD |-> cd,
                         LD |-> ld, Alpha |-> alpha, L |-> L,
                         penalty |-> penalty] >>
    /\ fpc' = "returned"
    /\ UNCHANGED <<alpha, hist, alpha_run, nruns, converged, aval>>
    /\ UNCHANGED <<pc, config, x, v, lbest, xlbest, gbest, xgbest, k, i, flag, history, calls, ncalls, yseen, LD_best, ld_best, ld_history, rng, trajectory, session>>

(* CDtot is zero: cl / cd raises ZeroDivisionError (line 238).             *)
FCNZeroDivision ==
    /\ fpc = "read"
    /\ hist[2] = 0
    /\ fpc' = "raised"
    /\ UNCHANGED <<alpha, hist, alpha_run, nruns, converged, result, aval>>
    /\ UNCHANGED <<pc, config, x, v, lbest, xlbest, gbest, xgbest, k, i, flag, history, calls, ncalls, yseen, LD_best, ld_best, ld_history, rng, trajectory, session>>

InitFCN ==
    /\ InitState
    /\ pop = POP
    /\ limits = Box
    /\ itermax = 2
    /\ asa_base \in SeedVals
    /\ fcn_const = <<>>
    /\ fcn_nonfinite = TRUE
    /\ fcn_aux = {0}
    /\ fcn_table = <<>>
    /\ seed = <<>>

NextFCN ==
    \/ FCNCall
    \/ FCNCycle
    \/ FCNReturn
    \/ FCNZeroDivision

SpecFCN == InitFCN /\ [][NextFCN]_vars

----------------------------------------------------------------------------
(* The evaluator avaliar_objetivo of cessna_opt.py.  The file is compiled  *)
(* as a whole when it is run or imported, before any of its functions is   *)
(* defined.  The steps of a call are opaque: what they meet (a wing or     *)
(* none, the files the solver left, what the two readers make of them, a   *)
(* step that raises) is drawn when the call is made.                       *)

Penalty1e6 == 1000000

(* The elements of x: numbers, or objects that the format :.2f rejects.    *)
ElementKinds == {"float", "str"}

(* L/D values a reader can return.                                         *)
LdVals == {1, 2}

(* What a reader returns: <<>> for None, <<ld>> for {"L_over_D": ld, ...}. *)
ReaderResults == {<<>>} \cup {<<ld>> : ld \in LdVals}

Environments ==
    [ raises : {"none", "before_wing", "after_wing"},
      wing   : BOOLEAN,
      paths  : {"none", "history", "polar", "both"},
      history : ReaderResults,
      polar  : ReaderResults ]

(* f"{sweep_deg:.2f}" and f"{twist_deg:.2f}" succeed: lines 312, 332, 336  *)
(* and 340.                                                                *)
Formats(xin) == xin[1] = "float" /\ xin[2] = "float"

(* The handler of lines 339-341: its print formats the elements of x       *)
(* again, outside of any try.                                              *)
ExceptHandler(xin) ==
    IF Formats(xin) THEN <<"return", Penalty1e6>> ELSE <<"raise", "ValueError">>

(* res of lines 324-328: the .history reader first, the .polar reader when *)
(* it gave nothing.                                                        *)
ReadResult(env) ==
    LET res == IF env.paths \in {"history", "both"} THEN env.history ELSE <<>>
    IN  IF res = <<>> /\ env.paths \in {"polar", "both"} THEN env.polar ELSE res

(* The body of avaliar_objetivo: lines 286-341.                            *)
avaliar_objetivo(xin, env) ==
    IF env.raises = "before_wing" THEN ExceptHandler(xin)
    ELSE IF ~env.wing THEN <<"return", Penalty1e6>>
    ELSE IF ~Formats(xin) THEN ExceptHandler(xin)
    ELSE IF env.raises = "after_wing" THEN ExceptHandler(xin)
    ELSE IF env.paths = "none" THEN <<"return", Penalty1e6>>
    ELSE IF ReadResult(env) = <<>> THEN <<"return", Penalty1e6>>
    ELSE <<"return", -ReadResult(env)[1]>>

(* A caller sets out to evaluate a two-element x.                          *)
AvalCall ==
    /\ apc = "idle"
    /\ pc = "init"
    /\ apc' = "load"
    /\ ax' \in ElementKinds \X ElementKinds
    /\ aenv' \in Environments
    /\ UNCHANGED <<aresult, fpc, alpha, hist, alpha_run, nruns, converged, result>>
    /\ UNCHANGED <<pc, config, x, v, lbest, xlbest, gbest, xgbest, k, i, flag, history, calls, ncalls, yseen, LD_best, ld_best, ld_history, rng, trajectory, session>>

(* cessna_opt.py is compiled: line 69 ends in "header is Non", without the *)
(* colon of the if, and the compiler raises SyntaxError.  No function of   *)
(* the file is defined and the caller gets the exception.                  *)
AvalLoad ==
    /\ apc = "load"
    /\ apc' = "ended"
    /\ aresult' = <<"raise", "SyntaxError">>
    /\ UNCHANGED <<ax, aenv, fpc, alpha, hist, alpha_run, nruns, converged, result>>
    /\ UNCHANGED <<pc, config, x, v, lbest, xlbest, gbest, xgbest, k, i, flag, history, calls, ncalls, yseen, LD_best, ld_best, ld_history, rng, trajectory, session>>

(* The body of the function run on its own, as lines 286-341 define it.    *)
AvalBody ==
    /\ apc = "load"
    /\ apc' = "ended"
    /\ aresult' = avaliar_objetivo(ax, aenv)
    /\ UNCHANGED <<ax, aenv, fpc, alpha, hist, alpha_run, nruns, converged, result>>
    /\ UNCHANGED <<pc, config, x, v, lbest, xlbest, gbest, xgbest, k, i, flag, history, calls, ncalls, yseen, LD_best, ld_best, ld_history, rng, trajectory, session>>

InitAval == InitFCN

NextAval ==
    \/ AvalCall
    \/ AvalLoad

SpecAval == InitAval /\ [][NextAval]_vars

NextAvalBody ==
    \/ AvalCall
    \/ AvalBody

SpecAvalBody == InitAval /\ [][NextAvalBody]_vars

----------------------------------------------------------------------------
(* Properties.                                                             *)

Last(s) == s[Len(s)]

Iterations == Len(gbest_history)

(* The loop body has run to its end at least once and is not in progress.  *)
AtIterationEnd == pc \in {"while", "report", "done"} /\ Iterations >= 1

(* The fitness values FCN has returned so far.                             *)
Returned == {c[2] : c \in {d \in calls : d[2] # Raised}}

(* C1: the global-best fitness recorded per iteration is non-increasing:   *)
(* for all recorded iterations a < b, gbest_history[b] <= gbest_history[a]. *)
C1_GbestHistoryNonIncreasing ==
    \A a, b \in 1 .. Iterations :
        a < b => gbest_history[b] <= gbest_history[a]

(* C2: after initialization and at the end of every iteration the current  *)
(* global-best fitness is <= the personal best of every particle, and is   *)
(* the lowest fitness the objective has returned so far.                   *)
C2_GbestBelowPersonalBests ==
    /\ pc = "start" =>
        /\ \A p \in Particles : Py(gbest, 0) <= lbest[p]
        /\ \A y \in Returned : Py(gbest, 0) <= y
    /\ AtIterationEnd /\ pc # "done" =>
        /\ \A p \in Particles : Last(gbest_history) <= lbest[p]
        /\ \A y \in Returned : Last(gbest_history) <= y

(* C3: the global-best position recorded for an iteration is a position at *)
(* which the objective returned exactly the global-best fitness recorded   *)
(* for that iteration.                                                     *)
C3_BestPositionHasBestFitness ==
    \A n \in 1 .. Iterations :
        <<history_gbest[n], gbest_history[n]>> \in calls

(* C4: the personal-best fitness of every particle is <= every fitness the *)
(* objective has returned for that particle, and it never increases.       *)
C4_PersonalBestDominates ==
    /\ [](\A p \in Particles : lbest[p] <= yseen[p])
    /\ [][\A p \in Particles : lbest'[p] <= lbest[p]]_vars

(* A particle sits, after an iteration, at a position other than its       *)
(* personal-best position, where the objective returned the worst fitness. *)
C4_Witness ==
    /\ AtIterationEnd
    /\ \E p \in Particles :
        /\ x[p] # xlbest[p]
        /\ lbest[p] < MaxFit
        /\ <<x[p], MaxFit>> \in calls

(* C5: every position coordinate recorded in the history lies within       *)
(* [xmin[j], xmax[j]], also when x + v overshoots the box.                 *)
C5_HistoryInsideBox ==
    \A n \in 1 .. Len(history_particles) :
        \A p \in Particles : InBox(history_particles[n][p])

(* The last update of some particle overshot the upper limit: the position *)
(* of the previous snapshot plus the new velocity lies beyond xmax.        *)
C5_Witness ==
    /\ AtIterationEnd
    /\ Iterations >= 2
    /\ \E p \in Particles, j \in Dims :
        /\ history_particles[Iterations - 1][p][j] + v[p][j] > xmax[j]
        /\ history_particles[Iterations][p][j] = xmax[j]

(* C6: every vector passed to FCN has each component within                *)
(* [xmin[j], xmax[j]], whatever seed vector is supplied.                   *)
C6_EveryArgumentInsideBox == \A c \in calls : InBox(c[1])

(* C7: when the stagnation test never holds, the run executes exactly      *)
(* itermax iterations of the main loop.                                    *)
C7_ExactlyItermaxIterations ==
    (pc = "done" /\ itermax >= 1 /\ Iterations < 10) => Iterations = itermax

(* C8: with an objective constant from iteration 1 onward and a cap that   *)
(* does not fire first, the run stops at the end of the 10th iteration:    *)
(* not earlier and not later.                                              *)
C8_ConstantObjectiveStopsAtTen ==
    /\ Iterations <= 10
    /\ flag => Iterations = 10
    /\ (pc = "while" /\ Iterations = 10) => flag
    /\ pc \in {"report", "done"} => Iterations = 10

C8_Witness == pc = "done" /\ Iterations = 10 /\ k - 1 < itermax

(* C9: for every iteration cap, also 0, 1 and negative ones, one full      *)
(* iteration (every particle evaluated once more, one history entry) has   *)
(* run before a stopping condition ends the loop.                          *)
C9_AtLeastOneIteration ==
    (flag \/ pc \in {"report", "done"}) =>
        /\ Iterations >= 1
        /\ Len(history_particles) >= 1
        /\ Len(history_gbest) >= 1
        /\ ncalls >= 2 * pop

C9_Witness == pc = "done" /\ itermax <= 0 /\ Iterations = 1

(* C10: an evaluation failure of the objective is never propagated out of  *)
(* the run: the run goes on and reaches its normal end.                    *)
C10_FailureNeverPropagates == pc # "crashed"

(* C11: a fitness that is nan or inf never becomes the personal best      *)
(* fitness of an evaluated particle nor an entry of the list gbest.        *)
C11_NonFiniteNeverBest ==
    pc # "init" =>
        /\ \A p \in Particles : lbest[p] \notin NonFinite
        /\ \A n \in 1 .. Len(gbest) : gbest[n] \notin NonFinite

(* C12: a run whose configuration is in error (xmin[j] > xmax[j], pop < 1  *)
(* or a seed of another length than the limits) never evaluates the        *)
(* objective and never enters the main loop.                               *)
C12_ConfigErrorRejected == ConfigError => (ncalls = 0 /\ k = 1)

IsPrefix(a, b) == Len(a) <= Len(b) /\ SubSeq(b, 1, Len(a)) = a

C15_ScenarioThirdIteration ==
    pc = "done" =>
        /\ Len(gbest_history) >= 3
        /\ gbest_history[3] <= gbest_history[1]
        /\ InBox(xgbest)

(* C16: the iteration count reported at termination, k - 1, is the number *)
(* of passes of the main loop, i.e. the length of gbest_history.           *)
C16_ReportedIterationCount ==
    pc = "done" => ReportedIterations = Len(gbest_history)

(* C17: the L/D (with CL and CD) written to the report is the one that    *)
(* was recorded by the evaluation that last set the global best, not the   *)
(* result of a later evaluation.                                           *)
C17_ReportedMetricsAreRecorded ==
    pc = "done" => ld_best = LD_best

(* C18: in the update of a particle every stored velocity coordinate is   *)
(* the raw omega*v + lambda1*r1*(xlbest - x) + lambda2*r2*(xgbest - x) of   *)
(* the position before the update, whatever its size, and every stored     *)
(* position coordinate is x + v saturated to xmin[j] or xmax[j].           *)
C18_VelocityRawPositionSaturated ==
    [][ (pc = "particles" /\ ncalls' = ncalls + 1) =>
        \E c1 \in [Dims -> Coef1], c2 \in [Dims -> Coef2] : \A j \in Dims :
            LET raw == Inertia(v[i][j]) + c1[j] * (xlbest[i][j] - x[i][j])
                                        + c2[j] * (xgbest[j] - x[i][j])
                moved == x[i][j] + raw
            IN  /\ v'[i][j] = raw
                /\ x'[i][j] = IF moved < xmin[j] THEN xmin[j]
                              ELSE IF moved > xmax[j] THEN xmax[j] ELSE moved ]_vars

(* A particle whose stored velocity exceeds the span of the box while its  *)
(* position sits on a limit.                                               *)
C18_Witness ==
    /\ pc \in {"particles", "record"}
    /\ \E p \in Particles, j \in Dims :
        /\ Abs(v[p][j]) > xmax[j] - xmin[j]
        /\ x[p][j] \in {xmin[j], xmax[j]}

(* C19: the objective is called once per particle at initialization and   *)
(* once per particle in every iteration, so a search of n iterations has   *)
(* made pop*(1+n) calls, and the final report one more; each call of the   *)
(* loop receives the particle's complete new position while the positions  *)
(* of the other particles are untouched.                                   *)
C19_OneEvaluationPerParticle ==
    /\ [] /\ pc = "init" => ncalls = i
          /\ pc = "start" => ncalls = pop
          /\ pc \in {"while", "report"} => ncalls = pop * (1 + Iterations)
          /\ pc = "particles" => ncalls = pop * (1 + Iterations) + i
          /\ pc = "record" => ncalls = pop * (2 + Iterations)
          /\ pc = "done" => ncalls = pop * (1 + Iterations) + 1
    /\ [][ (pc = "particles" /\ pc' # "crashed") =>
            /\ ncalls' = ncalls + 1
            /\ \E y \in FitVals : calls' = calls \cup {<<x'[i], y>>}
            /\ \A q \in Particles \ {i} : x'[q] = x[q] ]_vars

(* A finished run of two iterations: pop*(1+2) calls and the final one.    *)
C19_Witness ==
    /\ pc = "done"
    /\ Iterations = 2
    /\ ncalls = pop * 3 + 1

(* C20: an evaluation changes a personal best (fitness or position) only  *)
(* when it lowers the personal best fitness, and changes the global best   *)
(* position or its recorded metrics only when it lowers the global best    *)
(* fitness: on a tie the first-found best is kept.                         *)
C20_TiesDoNotUpdate ==
    [][ /\ ( /\ pc = "particles"
             /\ <<lbest'[i], xlbest'[i]>> # <<lbest[i], xlbest[i]>> )
           => lbest'[i] < lbest[i]
        /\ ( /\ pc \in {"init", "particles"}
             /\ <<xgbest, LD_best>>' # <<xgbest, LD_best>> )
           => Py(gbest', CurSlot) < Py(gbest, CurSlot) ]_vars

(* The iteration is over; the latest evaluation of some particle returned  *)
(* exactly its personal best fitness and the global best fitness, at a     *)
(* position that is neither its personal best nor the global best one.     *)
C20_Witness ==
    /\ pc = "record"
    /\ \E p \in Particles :
        /\ x[p] # xlbest[p]
        /\ x[p] # xgbest
        /\ \A c \in calls :
            c[1] = x[p] => (c[2] = lbest[p] /\ c[2] = Py(gbest, CurSlot))

(* C21: at the end of an iteration the stagnation test stops the run if   *)
(* and only if at least 10 global best values are recorded and the mean of *)
(* the last 5 differs from the mean of the 5 before them by less than tol  *)
(* in absolute value; the only other stop is the iteration cap.            *)
C21_PlateauTest ==
    [][ (pc = "record" /\ pc' = "while") =>
        LET h == gbest_history'
            n == Len(h)
            last5 == h[n] + h[n - 1] + h[n - 2] + h[n - 3] + h[n - 4]
            prev5 == h[n - 5] + h[n - 6] + h[n - 7] + h[n - 8] + h[n - 9]
        IN  flag' = ( \/ k >= itermax
                      \/ (n >= 10 /\ last5 - prev5 < 5 * tol
                                  /\ prev5 - last5 < 5 * tol) ) ]_vars

(* Ten or more values are recorded, the cap is not reached and the test    *)
(* let the run continue.                                                   *)
C21_Witness ==
    /\ pc = "while"
    /\ ~flag
    /\ Len(gbest_history) >= 10

(* C22: the stop flag is decided at the end of every iteration, by the    *)
(* cap test or the stagnation test; once it is set no particle is moved or *)
(* evaluated by the search again (only the final report calls the          *)
(* objective), and every run reaches its end.                              *)
C22_LoopStopsAtFirstStop ==
    /\ [] /\ flag => pc \in {"while", "report", "done"}
          /\ (pc = "while" /\ Iterations = 0) => ~flag
          /\ (pc = "while" /\ Iterations >= 1) =>
                (flag <=> (k - 1 >= itermax \/ StopByPlateau(gbest_history)))
    /\ [][ flag => /\ x' = x /\ v' = v
                   /\ ncalls' # ncalls => pc = "report" ]_vars
    /\ <>(pc = "done")

(* A run stopped by the cap after the stagnation test had let it go on.    *)
C22_Witness ==
    /\ pc = "done"
    /\ Iterations > 10
    /\ k - 1 >= itermax
    /\ ~StopByPlateau(gbest_history)

(* C23: when the initialization loop has ended every velocity is zero,     *)
(* every personal best is the initial position with the fitness returned   *)
(* for it, and the global best is that of the initial particle of lowest   *)
(* fitness, the first of them on ties; the L/D kept with it is replaced    *)
(* only by the evaluation that takes the global best.                      *)
C23_AfterInitialization ==
    /\ [] ( (pc = "start" /\ pop > 0) =>
            /\ \A p \in Particles :
                  /\ v[p] = Zeros
                  /\ xlbest[p] = x[p]
                  /\ <<x[p], lbest[p]>> \in calls
            /\ \E b \in Particles :
                  /\ \A q \in Particles :
                        /\ lbest[b] <= lbest[q]
                        /\ q < b => lbest[b] < lbest[q]
                  /\ Py(gbest, 0) = lbest[b]
                  /\ xgbest = x[b]
            /\ LD_best # <<>> )
    /\ [][ (pc = "init" /\ LD_best' # LD_best) =>
             /\ \A q \in 0 .. (i - 1) : lbest'[i] < lbest[q]
             /\ xgbest' = x'[i]
             /\ Py(gbest', 0) = lbest'[i] ]_vars

(* Two initial particles at different positions tie: the first is kept.    *)
C23_Witness ==
    /\ pc = "start"
    /\ pop = 2
    /\ lbest[0] = lbest[1]
    /\ x[0] # x[1]
    /\ xgbest = x[0]

(* C24: the first evaluation of a run is that of particle 0, at the seed   *)
(* vector as it was given; every later particle of the initialization is   *)
(* evaluated at a position drawn inside the limits.                        *)
C24_SeedIsFirstEvaluation ==
    [][ (pc = "init" /\ ncalls' = ncalls + 1) =>
          /\ ncalls = i
          /\ \E y \in FitVals \cup {Raised} : calls' = calls \cup {<<x'[i], y>>}
          /\ IF i = 0
             THEN /\ x'[0] = asa_base
                  /\ calls = {}
             ELSE /\ \A j \in Dims : x'[i][j] \in RandomCoord(j)
                  /\ InBox(x'[i])
                  /\ x'[0] = asa_base ]_vars

(* The seed lies outside the limits and is kept; particle 1 was drawn      *)
(* inside them.                                                            *)
C24_Witness ==
    /\ pc = "start"
    /\ pop = 2
    /\ x[0] = asa_base
    /\ ~InBox(x[0])
    /\ InBox(x[1])
    /\ ncalls = 2

(* C25: while the loop runs and after it, the histories of the global best *)
(* fitness, of its L/D, of the positions and of the global best position   *)
(* hold one entry per completed pass of the loop body; an entry of the     *)
(* positions holds every particle; a step only appends one entry to a      *)
(* history and leaves the entries it already holds as they are.            *)
C25_HistoriesAlignedAppendOnly ==
    /\ [] ( pc \in {"while", "particles", "record", "report", "done"} =>
            /\ Len(gbest_history) = k - 2
            /\ Len(ld_history) = k - 2
            /\ Len(history_particles) = k - 2
            /\ Len(history_gbest) = k - 2
            /\ \A n \in 1 .. Len(history_particles) :
                  /\ DOMAIN history_particles[n] = Particles
                  /\ \A p \in Particles : DOMAIN history_particles[n][p] = Dims
                  /\ DOMAIN history_gbest[n] = Dims )
    /\ [][ /\ IsPrefix(gbest_history, gbest_history')
           /\ IsPrefix(ld_history, ld_history')
           /\ IsPrefix(history_particles, history_particles')
           /\ IsPrefix(history_gbest, history_gbest')
           /\ Len(gbest_history') <= Len(gbest_history) + 1
           /\ Len(history_particles') <= Len(history_particles) + 1
           /\ pc = "record" => history_particles' = Append(history_particles, x) ]_vars

(* The particles moved after the first entry was stored, and the entry     *)
(* still holds the positions of the first iteration.                       *)
C25_Witness ==
    /\ pc = "while"
    /\ Len(history_particles) = 2
    /\ history_particles[2] = x
    /\ history_particles[1] # x

(* C26: the personal best position of every evaluated particle is a       *)
(* position at which the objective returned the personal best fitness, and *)
(* it changes only when an evaluation improves that fitness, to the        *)
(* position evaluated: a move of the particle alone leaves it alone.       *)
C26_PersonalBestPositionEvaluated ==
    /\ [] ( \A p \in Particles :
              (IF pc = "init" THEN p < i ELSE pc # "crashed") =>
                  <<xlbest[p], lbest[p]>> \in calls )
    /\ [][ \A p \in Particles :
             /\ xlbest'[p] # xlbest[p] =>
                   /\ lbest'[p] < lbest[p]
                   /\ xlbest'[p] = x'[p]
             /\ lbest'[p] = lbest[p] => xlbest'[p] = xlbest[p] ]_vars

(* A particle has moved away from its personal best position.              *)
C26_Witness ==
    /\ pc = "while"
    /\ Iterations >= 1
    /\ \E p \in Particles :
          /\ x[p] # xlbest[p]
          /\ <<x[p], lbest[p]>> \notin calls

(* C27: a pass of the loop body takes the particles in the order of their *)
(* index; the velocity of the particle being moved is drawn towards the    *)
(* global best position as it stands, and an evaluation that improves the  *)
(* global best fitness replaces that position at once, so the particles    *)
(* after it in the same pass are drawn towards the new one.                *)
C27_GlobalBestUsedAtOnce ==
    [][ /\ (pc = "while" /\ pc' = "particles") => i' = 0
        /\ (pc = "particles" /\ ncalls' = ncalls + 1) =>
              /\ \E c1 \in Coefs1, c2 \in Coefs2 : \A j \in Dims :
                    v'[i][j] = VNew(v[i][j], x[i][j], xlbest[i][j], xgbest[j],
                                    c1[j], c2[j])
              /\ pc' = "particles" => i' = i + 1
              /\ pc' = "record" => i = pop - 1
              /\ Py(gbest', CurSlot) < Py(gbest, CurSlot) => xgbest' = x'[i]
              /\ Py(gbest', CurSlot) = Py(gbest, CurSlot) => xgbest' = xgbest ]_vars

(* Particle 0 has replaced the global best position in the second pass and *)
(* particle 1 has moved after it.                                          *)
C27_Witness ==
    /\ pc = "record"
    /\ pop = 2
    /\ Iterations = 1
    /\ xgbest # Last(history_gbest)
    /\ xgbest = xlbest[0]
    /\ Py(gbest, CurSlot) = lbest[0]
    /\ lbest[0] < lbest[1]
    /\ v[1] # Zeros

InBand(L) == L # NaN /\ (BandDen - 1) * W <= BandDen * L /\ BandDen * L <= (BandDen + 1) * W

(* C28, as claimed: FCN returns -(CL/CD) + penalty; the penalty is zero    *)
(* exactly when the lift is within 5% of the weight, the ends included,    *)
(* and positive otherwise; a call whose auto-alpha loop was left by the    *)
(* convergence test returns no penalty.                                    *)
C28_PenaltyZeroExactlyInBand ==
    fpc = "returned" =>
        LET r == result[1]
        IN  /\ r.fobj = Fobj(LDOf(r.CL, r.CD), r.penalty)
            /\ r.penalty = 0 <=> InBand(r.L)
            /\ ~InBand(r.L) => r.penalty > 0
            /\ converged => r.penalty = 0

(* C28, amended: FCN returns -(CL/CD) + penalty; for a lift that is a      *)
(* number the penalty is zero exactly when the lift is within 5% of the    *)
(* weight, the ends included, and positive otherwise; for a lift that is   *)
(* nan the penalty is zero and the objective returned is nan; a call whose *)
(* auto-alpha loop was left by the convergence test returns no penalty.    *)
C28_PenaltyOutsideBandOnly ==
    fpc = "returned" =>
        LET r == result[1]
        IN  /\ r.fobj = Fobj(LDOf(r.CL, r.CD), r.penalty)
            /\ r.L # NaN =>
                  /\ r.penalty = 0 <=> InBand(r.L)
                  /\ ~InBand(r.L) => r.penalty > 0
            /\ r.L = NaN => (r.penalty = 0 /\ r.fobj = NaN)
            /\ converged => (r.penalty = 0 /\ InBand(r.L))

(* The lift returned is at the upper end of the band: the auto-alpha loop  *)
(* did not converge on it and the objective carries no penalty.            *)
C28_Witness ==
    /\ fpc = "returned"
    /\ ~converged
    /\ BandDen * result[1].L = (BandDen + 1) * W
    /\ result[1].penalty = 0

(* C29: a call of FCN executes the solver at most 4 times and the Alpha it *)
(* returns is the angle of the last execution, the one the returned        *)
(* coefficients were computed at.                                          *)
C29_AlphaOfLastRun ==
    fpc = "returned" =>
        /\ nruns <= Cycles
        /\ result[1].Alpha = alpha_run[1]

(* C30: a call of avaliar_objetivo with a two-element input ends by        *)
(* returning, never by an exception: 1e6 when no wing is found, when the   *)
(* solver left no file, when neither reader gives an L/D or when a step    *)
(* raises; otherwise -L/D, with the L/D of the .history reader when it     *)
(* gave one and of the .polar reader when it did not.                      *)
C30_EvaluatorNeverPropagates ==
    apc = "ended" =>
        /\ aresult[1] = "return"
        /\ LET failure == \/ aenv.raises # "none"
                          \/ ~aenv.wing
                          \/ aenv.paths = "none"
                          \/ ReadResult(aenv) = <<>>
           IN  aresult[2] = IF failure THEN Penalty1e6 ELSE -ReadResult(aenv)[1]

====
